---- MODULE Spec2Model ----
(***************************************************************************)
(* Model of rabbus.go: the asynchronous producer pipeline (register and    *)
(* produce), the exchange declaration cache (exDeclared), the circuit      *)
(* breaker and bounded retry that wrap Publish, the connection watch       *)
(* (notifyClose), Close, and the consumer relay started by Listen.         *)
(*                                                                         *)
(* A connection and the channel opened on it share one generation number:  *)
(* generation 0 is the pair NewRabbus dials, generation n > 0 the pair     *)
(* the n-th successful Dial of a reconnection loop creates.  r.conn and    *)
(* r.ch hold generation numbers.  The configuration is taken with an       *)
(* OnStateChange observer set (NewRabbus calls it unconditionally).        *)
(*                                                                         *)
(* The breaker is gobreaker's CircuitBreaker with MaxRequests at its       *)
(* default of 1: Execute consults the state (currentState), rejects when   *)
(* open, runs the request and counts its result unless the generation      *)
(* changed meanwhile.  retry.Do calls the function, and after a failure    *)
(* decrements attempts and calls again while attempts > 0.  Time is the    *)
(* breaker's expiry passing (Tick); the sleeps are interleaving points.    *)
(* Of a Message only Exchange is kept: Kind, Key, Payload and the          *)
(* ContentType / DeliveryMode defaults do not steer produce.               *)
(***************************************************************************)
EXTENDS Integers, Sequences, FiniteSets, TLC

\* ---------------------------------------------------------------- bounds
MaxMsgs == 4
MaxLoad == 2
MaxGen == 2
MaxAttempts == 2
MaxThreshold == 2
MaxDeliveries == 3
MaxBacklog == 1

\* ------------------------------------------------------ program constants
DefaultThreshold == 5
Capacity == 256

Exchanges == {"orders", "audit"}
Gens == 0..MaxGen
NoGen == 0 - 1

VARIABLES
    load,        \* number of messages the application sends
    input,       \* the Config passed to NewRabbus
    config,      \* r.config (Threshold defaulted)
    conn,        \* r.conn: generation of the active connection
    ch,          \* r.ch: generation of the active channel
    connState,   \* broker side: state of the connection of each generation
    chState,     \* broker side: state of the channel of each generation
    mu,          \* r.RWMutex: NoGen when free, else the watch holding it
    watch,       \* the notifyClose goroutines, by spawn order
    exDeclared,  \* r.exDeclared
    fresh,       \* history: names declared with success on the channel r.ch names
    breaker,     \* r.breaker
    pc,          \* position of the register goroutine
    m,           \* the message produce is working on
    attempts,    \* retry.Do's remaining attempts
    before,      \* generation returned by the breaker's beforeRequest
    err,         \* the error produce is about to emit
    results,     \* history: result of each Publish call made for m
    declare,     \* the ExchangeDeclare call produce made for m
    tried,       \* history: names of the declare calls made on that channel
    refused,     \* history: the broker has refused a declare or a publish
    sent,        \* number of messages accepted from r.emit
    outcomes,    \* history: what was received from r.emitOk / r.emitErr
    closePc,     \* position of the caller inside Close
    closed,      \* history: the generations Close acted on
    listen,      \* the call of Listen: position, argument, return value
    calls,       \* history: the broker calls Listen made
    sub,         \* broker side: the consumer Listen started and its stream
    relay,       \* the goroutine Listen starts
    messages,    \* the buffered channel Listen returns
    messagesClosed, \* whether that channel has been closed
    got,         \* history: what the application received from it
    caller       \* position of an application that is one goroutine

vars == <<load, input, config, conn, ch, connState, chState, mu, watch,
          exDeclared, fresh, tried, breaker, pc, m, attempts, before,
          err, results, declare, refused, sent, outcomes, closePc, closed,
          listen, calls, sub, relay, messages, messagesClosed, got, caller>>

connVars == <<conn, ch, connState, chState, mu, watch>>
pipeVars == <<exDeclared, fresh, tried, breaker, pc, m, attempts,
              before, err, results, declare, refused, sent, outcomes>>
closeVars == <<closePc, closed>>
cfgVars == <<load, input, config>>
appVars == <<caller>>
listenVars == <<listen, calls, sub, relay, messages, messagesClosed, got>>

NoMsg == [id |-> 0, Exchange |-> "none"]
NoCall == [Exchange |-> "none", on |-> NoGen, ok |-> FALSE]
NoWatch == [pc |-> "none", on |-> NoGen, nconn |-> NoGen]
NoConfig == [Exchange |-> "", Kind |-> "", Queue |-> ""]
NoSub == [on |-> NoGen, cancelled |-> FALSE, delivered |-> 0, pending |-> <<>>]
DoneWatch == [NoWatch EXCEPT !.pc = "done"]

\* ------------------------------------------------------------- NewRabbus
\* c.Threshold == 0 is replaced by 5 before the Config is stored.
ThresholdOrDefault(t) == IF t = 0 THEN DefaultThreshold ELSE t

NewRabbus(c, n) ==
    /\ load = n
    /\ input = c
    /\ config = [c EXCEPT !.Threshold = ThresholdOrDefault(c.Threshold)]
    /\ conn = 0
    /\ ch = 0
    /\ connState = [g \in Gens |-> IF g = 0 THEN "open" ELSE "none"]
    /\ chState = [g \in Gens |-> IF g = 0 THEN "open" ELSE "none"]
    /\ mu = NoGen
    /\ watch = [i \in Gens |-> IF i = 0 THEN [NoWatch EXCEPT !.pc = "start"]
                                         ELSE NoWatch]
    /\ exDeclared = {}
    /\ fresh = {}
    /\ breaker = [state |-> "closed", ConsecutiveFailures |-> 0,
                  generation |-> 1, expired |-> FALSE]
    /\ pc = "recv"
    /\ m = NoMsg
    /\ attempts = 0
    /\ before = 0
    /\ err = "none"
    /\ results = <<>>
    /\ declare = NoCall
    /\ tried = {}
    /\ refused = FALSE
    /\ sent = 0
    /\ outcomes = <<>>
    /\ closePc = "idle"
    /\ closed = [ch |-> NoGen, conn |-> NoGen]
    /\ listen = [pc |-> "idle", c |-> NoConfig, ret |-> "none"]
    /\ calls = <<>>
    /\ sub = NoSub
    /\ relay = [pc |-> "none", m |-> 0]
    /\ messages = <<>>
    /\ messagesClosed = FALSE
    /\ got = <<>>
    /\ caller = "idle"

Configs == [Threshold : 0..MaxThreshold, Attempts : 0..MaxAttempts,
            Interval : BOOLEAN]

Init == NewRabbus([Threshold |-> 1, Attempts |-> 2, Interval |-> FALSE], MaxLoad)


\* ------------------------------------------------------- circuit breaker
\* Variants of ReadyToTrip: tripping on reaching the threshold, and one
\* failure late.
ReadyToTripAtThreshold(counts) == counts >= config.Threshold
ReadyToTripLate(counts) == counts > config.Threshold + 1

\* gobreaker.Settings.ReadyToTrip as NewRabbus sets it.
ReadyToTrip(counts) == counts > config.Threshold

\* The expiry of the current breaker generation is set: always in the open
\* state (Timeout), in the closed state only when Interval is non-zero.
Armed(b) == b.state = "open" \/ (b.state = "closed" /\ config.Interval)

ToNewGeneration(b) ==
    [b EXCEPT !.generation = @ + 1, !.ConsecutiveFailures = 0, !.expired = FALSE]

SetState(b, s) == IF b.state = s THEN b ELSE ToNewGeneration([b EXCEPT !.state = s])

\* currentState: the lazy transitions taken when the breaker is consulted.
CurrentState(b) ==
    IF b.state = "closed" /\ Armed(b) /\ b.expired THEN ToNewGeneration(b)
    ELSE IF b.state = "open" /\ b.expired THEN SetState(b, "half-open")
    ELSE b

OnSuccess(b) ==
    IF b.state = "closed" THEN [b EXCEPT !.ConsecutiveFailures = 0]
    ELSE IF b.state = "half-open" THEN SetState(b, "closed")
    ELSE b

\* Variant of OnFailure: every failed publish attempt is counted.
OnFailurePerAttempt(b) ==
    IF b.state = "closed"
    THEN LET c == [b EXCEPT !.ConsecutiveFailures = @ + Len(results)]
         IN  IF ReadyToTrip(c.ConsecutiveFailures) THEN SetState(c, "open") ELSE c
    ELSE IF b.state = "half-open" THEN SetState(b, "open")
    ELSE b

OnFailure(b) ==
    IF b.state = "closed"
    THEN LET c == [b EXCEPT !.ConsecutiveFailures = @ + 1]
         IN  IF ReadyToTrip(c.ConsecutiveFailures) THEN SetState(c, "open") ELSE c
    ELSE IF b.state = "half-open" THEN SetState(b, "open")
    ELSE b

\* afterRequest: a result of an older generation is not counted.
AfterRequestState(b, gen, success) ==
    LET c == CurrentState(b)
    IN  IF c.generation # gen THEN c
        ELSE IF success THEN OnSuccess(c) ELSE OnFailure(c)

\* The clock passes the expiry of the current breaker generation.
Tick ==
    /\ Armed(breaker)
    /\ ~breaker.expired
    /\ breaker' = [breaker EXCEPT !.expired = TRUE]
    /\ UNCHANGED <<exDeclared, fresh, tried, pc, m, attempts, before,
                   err, results, declare, refused, sent, outcomes>>
    /\ UNCHANGED <<connVars, closeVars, cfgVars, appVars, listenVars>>

\* ---------------------------------------------------- register / produce
\* The broker can accept a call only on an open channel.
Accepts(c, ok) == ok => chState[c] = "open"

\* Variant of Lookup: the cache is never consulted.
LookupAlwaysDeclare(e) == "declare"

\* produce's cache lookup: where produce goes for a message naming e.
Lookup(e) == IF e \in exDeclared THEN "execute" ELSE "declare"

\* Variant of Accepting: register would also receive while produce is
\* sending the outcome.
AcceptingWhileEmitting == pc \in {"recv", "emitOk", "emitErr"}

\* The one goroutine of register is at its receive on the unbuffered
\* r.emit only when produce has returned.
Accepting == pc = "recv"

\* register receives the next message from r.emit; produce looks the
\* exchange up in r.exDeclared.
Accept(e) ==
    /\ Accepting
    /\ sent < load
    /\ sent' = sent + 1
    /\ m' = [id |-> sent + 1, Exchange |-> e]
    /\ pc' = Lookup(e)
    /\ UNCHANGED <<exDeclared, fresh, tried, breaker, attempts, before,
                   err, results, declare, refused, outcomes>>
    /\ UNCHANGED <<connVars, closeVars, cfgVars, listenVars>>

\* A sender of the application sends a message on r.emit.
Send(e) == Accept(e) /\ UNCHANGED appVars

\* Variant of Record: the name is recorded whatever ExchangeDeclare returned.
RecordAlways(set, e, ok) == set \cup {e}

\* What produce records after ExchangeDeclare returned.
Record(set, e, ok) == IF ok THEN set \cup {e} ELSE set

\* Variant of AfterDeclare: a failed declare is reported to the breaker.
AfterDeclareCounted(ok) == IF ok THEN "execute" ELSE "after"

\* Variant of AfterDeclare: a failed declare is repeated for the message.
AfterDeclareRetries(ok) == IF ok THEN "execute" ELSE "declare"

\* Variant of AfterDeclare: the test of the error inverted.
AfterDeclareInverted(ok) == IF ok THEN "emitErr" ELSE "execute"

\* Where produce goes after ExchangeDeclare returned.
AfterDeclare(ok) == IF ok THEN "execute" ELSE "emitErr"

ExchangeDeclare(ok) ==
    /\ pc = "declare"
    /\ Accepts(ch, ok)
    /\ declare' = [Exchange |-> m.Exchange, on |-> ch, ok |-> ok]
    /\ tried' = tried \cup {m.Exchange}
    /\ exDeclared' = Record(exDeclared, m.Exchange, ok)
    /\ fresh' = IF ok THEN fresh \cup {m.Exchange} ELSE fresh
    /\ err' = IF ok THEN "none" ELSE "declare"
    /\ pc' = AfterDeclare(ok)
    /\ refused' = (refused \/ ~ok)
    /\ UNCHANGED <<breaker, m, attempts, before, results, sent, outcomes>>
    /\ UNCHANGED <<connVars, closeVars, cfgVars, appVars, listenVars>>

\* breaker.Execute, beforeRequest: an open breaker rejects the call.
Rejects(b) == b.state = "open"

BeforeRequest ==
    /\ pc = "execute"
    /\ LET b == CurrentState(breaker)
       IN  /\ breaker' = b
           /\ IF Rejects(b)
              THEN /\ err' = "open"
                   /\ pc' = "emitErr"
                   /\ UNCHANGED <<before, attempts>>
              ELSE /\ before' = b.generation
                   /\ attempts' = config.Attempts
                   /\ pc' = "publish"
                   /\ UNCHANGED err
    /\ UNCHANGED <<exDeclared, fresh, tried, m, results, declare,
                   refused, sent, outcomes>>
    /\ UNCHANGED <<connVars, closeVars, cfgVars, appVars, listenVars>>

\* Variant of RetryAgain: attempts tested before it is decremented.
RetryAgainOffByOne(a) == a > 0

\* retry.Do: after a failed call, decrement attempts and retry while > 0.
RetryAgain(a) == a - 1 > 0

Publish(ok) ==
    /\ pc = "publish"
    /\ Accepts(ch, ok)
    /\ results' = Append(results, ok)
    /\ refused' = (refused \/ ~ok)
    /\ IF ok
       THEN /\ pc' = "after"
            /\ err' = "none"
            /\ UNCHANGED attempts
       ELSE IF RetryAgain(attempts)
       THEN /\ attempts' = attempts - 1
            /\ UNCHANGED <<pc, err>>
       ELSE /\ attempts' = attempts - 1
            /\ err' = "publish"
            /\ pc' = "after"
    /\ UNCHANGED <<exDeclared, fresh, tried, breaker, m, before,
                   declare, sent, outcomes>>
    /\ UNCHANGED <<connVars, closeVars, cfgVars, appVars, listenVars>>

\* breaker.Execute, afterRequest, and produce's choice of output channel.
AfterRequest ==
    /\ pc = "after"
    /\ breaker' = AfterRequestState(breaker, before, err = "none")
    /\ pc' = IF err = "none" THEN "emitOk" ELSE "emitErr"
    /\ UNCHANGED <<exDeclared, fresh, tried, m, attempts, before, err,
                   results, declare, refused, sent, outcomes>>
    /\ UNCHANGED <<connVars, closeVars, cfgVars, appVars, listenVars>>

Outcome(kind) == [id |-> m.id, kind |-> kind]

\* produce returns: its locals are gone.
Returned ==
    /\ m' = NoMsg
    /\ attempts' = 0
    /\ before' = 0
    /\ err' = "none"
    /\ results' = <<>>
    /\ declare' = NoCall

\* Variant of AfterEmit: no return after the declare error was sent.
AfterEmitFallsThrough == IF err = "declare" THEN "execute" ELSE "recv"

\* Where produce goes after its send on r.emitOk or r.emitErr was received.
AfterEmit == "recv"

\* produce's send on r.emitOk meets a receive.
TakeOk ==
    /\ pc = "emitOk"
    /\ outcomes' = Append(outcomes, Outcome("ok"))
    /\ pc' = AfterEmit
    /\ Returned
    /\ UNCHANGED <<exDeclared, fresh, tried, breaker, refused, sent>>
    /\ UNCHANGED <<connVars, closeVars, cfgVars, listenVars>>

\* produce's send on r.emitErr meets a receive.
TakeErr ==
    /\ pc = "emitErr"
    /\ outcomes' = Append(outcomes, Outcome(err))
    /\ pc' = AfterEmit
    /\ Returned
    /\ UNCHANGED <<exDeclared, fresh, tried, breaker, refused, sent>>
    /\ UNCHANGED <<connVars, closeVars, cfgVars, listenVars>>

\* A reader receives from r.emitOk.
RecvOk == TakeOk /\ UNCHANGED appVars

\* A reader receives from r.emitErr.
RecvErr == TakeErr /\ UNCHANGED appVars

\* ------------------------------------------------ a one-goroutine caller
\* An application that uses the facade from one goroutine: it decides to
\* send on EmitAsync() or to receive from EmitOk() / EmitErr(), and is
\* then blocked in that operation until the pipeline meets it.
CallerChoose(op) ==
    /\ caller = "idle"
    /\ op = "send" => sent < load
    /\ caller' = op
    /\ UNCHANGED <<connVars, pipeVars, closeVars, cfgVars, listenVars>>

CallerSend(e) ==
    /\ caller = "send"
    /\ Accept(e)
    /\ caller' = "idle"

CallerRecvOk ==
    /\ caller = "read"
    /\ TakeOk
    /\ caller' = "idle"

CallerRecvErr ==
    /\ caller = "read"
    /\ TakeErr
    /\ caller' = "idle"


\* ------------------------------------------------------------ the broker
\* The broker (or the network) drops a connection with an error: the
\* connection and the channel opened on it are closed.
ConnDrop(g) ==
    /\ connState[g] = "open"
    /\ connState' = [connState EXCEPT ![g] = "closedErr"]
    /\ chState' = [chState EXCEPT ![g] = IF @ = "open" THEN "closed" ELSE @]
    /\ UNCHANGED <<conn, ch, mu, watch>>
    /\ UNCHANGED <<pipeVars, closeVars, cfgVars, appVars, listenVars>>

\* ----------------------------------------------------------- notifyClose
\* r.conn.NotifyClose(...): the watch registers on the connection r.conn
\* names at that moment; on a connection already closed the notification
\* channel is closed at once and the receive yields nil.
Register(i) ==
    /\ watch[i].pc = "start"
    /\ watch' = [watch EXCEPT ![i] =
                    IF connState[conn] = "open"
                    THEN [@ EXCEPT !.pc = "waiting", !.on = conn]
                    ELSE DoneWatch]
    /\ UNCHANGED <<conn, ch, connState, chState, mu>>
    /\ UNCHANGED <<pipeVars, closeVars, cfgVars, appVars, listenVars>>

LoopsOnAnyClose(state) == state \in {"closedErr", "closedOk"}

\* err := <-...: a non-nil error enters the loop, nil returns.
Loops(state) == state = "closedErr"

Notified(i) ==
    /\ watch[i].pc = "waiting"
    /\ connState[watch[i].on] \in {"closedErr", "closedOk"}
    /\ watch' = [watch EXCEPT ![i] =
                    IF Loops(connState[watch[i].on])
                    THEN [@ EXCEPT !.pc = "dial"]
                    ELSE DoneWatch]
    /\ UNCHANGED <<conn, ch, connState, chState, mu>>
    /\ UNCHANGED <<pipeVars, closeVars, cfgVars, appVars, listenVars>>

Unused == {g \in Gens : connState[g] = "none"}

\* time.Sleep, then amqp.Dial succeeds and yields a new connection.  A
\* failed Dial continues the loop and changes nothing.
Dial(i) ==
    /\ watch[i].pc = "dial"
    /\ Unused # {}
    /\ LET n == CHOOSE g \in Unused : \A h \in Unused : g <= h
       IN  /\ connState' = [connState EXCEPT ![n] = "open"]
           /\ watch' = [watch EXCEPT ![i] = [@ EXCEPT !.pc = "channel", !.nconn = n]]
    /\ UNCHANGED <<conn, ch, chState, mu>>
    /\ UNCHANGED <<pipeVars, closeVars, cfgVars, appVars, listenVars>>

\* conn.Channel(): on an error the loop continues with a new Dial, and
\* nothing refers to the connection any more.
Channel(i, ok) ==
    /\ watch[i].pc = "channel"
    /\ ok => connState[watch[i].nconn] = "open"
    /\ IF ok
       THEN /\ chState' = [chState EXCEPT ![watch[i].nconn] = "open"]
            /\ watch' = [watch EXCEPT ![i] = [@ EXCEPT !.pc = "lock"]]
            /\ UNCHANGED connState
       ELSE /\ watch' = [watch EXCEPT ![i] = [@ EXCEPT !.pc = "dial", !.nconn = NoGen]]
            /\ connState' = [connState EXCEPT ![watch[i].nconn] = "dropped"]
            /\ UNCHANGED chState
    /\ UNCHANGED <<conn, ch, mu>>
    /\ UNCHANGED <<pipeVars, closeVars, cfgVars, appVars, listenVars>>

\* r.Lock()
Lock(i) ==
    /\ watch[i].pc = "lock"
    /\ mu = NoGen
    /\ mu' = i
    /\ watch' = [watch EXCEPT ![i] = [@ EXCEPT !.pc = "setConn"]]
    /\ UNCHANGED <<conn, ch, connState, chState>>
    /\ UNCHANGED <<pipeVars, closeVars, cfgVars, appVars, listenVars>>

\* r.conn = conn
SetConn(i) ==
    /\ watch[i].pc = "setConn"
    /\ conn' = watch[i].nconn
    /\ watch' = [watch EXCEPT ![i] = [@ EXCEPT !.pc = "setCh"]]
    /\ UNCHANGED <<ch, connState, chState, mu>>
    /\ UNCHANGED <<pipeVars, closeVars, cfgVars, appVars, listenVars>>

\* What the swap leaves in r.exDeclared.
SwapCache(set) == set

\* r.ch = ch
SetCh(i) ==
    /\ watch[i].pc = "setCh"
    /\ ch' = watch[i].nconn
    /\ exDeclared' = SwapCache(exDeclared)
    /\ watch' = [watch EXCEPT ![i] = [@ EXCEPT !.pc = "spawn"]]
    /\ UNCHANGED <<conn, connState, chState, mu>>
    /\ fresh' = {}
    /\ tried' = {}
    /\ UNCHANGED <<breaker, pc, m, attempts, before, err, results, declare,
                   refused, sent, outcomes>>
    /\ UNCHANGED <<closeVars, cfgVars, appVars, listenVars>>

\* go notifyClose(dsn, r)
Spawn(i) ==
    /\ watch[i].pc = "spawn"
    /\ i + 1 \in Gens
    /\ watch' = [watch EXCEPT ![i] = [@ EXCEPT !.pc = "return"],
                              ![i + 1] = [NoWatch EXCEPT !.pc = "start"]]
    /\ UNCHANGED <<conn, ch, connState, chState, mu>>
    /\ UNCHANGED <<pipeVars, closeVars, cfgVars, appVars, listenVars>>

ReturnKeepsLock(i) ==
    /\ watch[i].pc = "return"
    /\ watch' = [watch EXCEPT ![i] = DoneWatch]
    /\ UNCHANGED <<conn, ch, connState, chState, mu>>
    /\ UNCHANGED <<pipeVars, closeVars, cfgVars, appVars, listenVars>>

\* break, return: the deferred r.Unlock() runs.
Return(i) ==
    /\ watch[i].pc = "return"
    /\ mu' = IF mu = i THEN NoGen ELSE mu
    /\ watch' = [watch EXCEPT ![i] = DoneWatch]
    /\ UNCHANGED <<conn, ch, connState, chState>>
    /\ UNCHANGED <<pipeVars, closeVars, cfgVars, appVars, listenVars>>

\* ----------------------------------------------------------------- Close
\* r.ch.Close()
CloseCh ==
    /\ closePc = "idle"
    /\ chState' = [chState EXCEPT ![ch] = IF @ = "open" THEN "closed" ELSE @]
    /\ closed' = [closed EXCEPT !.ch = ch]
    /\ closePc' = "conn"
    /\ UNCHANGED <<conn, ch, connState, mu, watch>>
    /\ UNCHANGED <<pipeVars, cfgVars, appVars, listenVars>>

\* r.conn.Close(): a graceful close, its listeners receive nil.
CloseConn ==
    /\ closePc = "conn"
    /\ connState' = [connState EXCEPT ![conn] = IF @ = "open" THEN "closedOk" ELSE @]
    /\ chState' = [chState EXCEPT ![conn] = IF @ = "open" THEN "closed" ELSE @]
    /\ closed' = [closed EXCEPT !.conn = conn]
    /\ closePc' = "done"
    /\ UNCHANGED <<conn, ch, mu, watch>>
    /\ UNCHANGED <<pipeVars, cfgVars, appVars, listenVars>>


\* ---------------------------------------------------------------- Listen
ListenConfigs == [Exchange : {"", "orders"}, Kind : {"", "topic"}, Queue : {"", "q"}]

ValidateKindFirst(c) ==
    IF c.Kind = "" THEN "ErrMissingKind"
    ELSE IF c.Exchange = "" THEN "ErrMissingExchange"
    ELSE IF c.Queue = "" THEN "ErrMissingQueue"
    ELSE "none"

\* The checks Listen makes before any broker call.
Validate(c) ==
    IF c.Exchange = "" THEN "ErrMissingExchange"
    ELSE IF c.Kind = "" THEN "ErrMissingKind"
    ELSE IF c.Queue = "" THEN "ErrMissingQueue"
    ELSE "none"

ListenCall(c) ==
    /\ listen.pc = "idle"
    /\ listen' = IF Validate(c) = "none"
                 THEN [pc |-> "ExchangeDeclare", c |-> c, ret |-> "none"]
                 ELSE [pc |-> "returned", c |-> c, ret |-> Validate(c)]
    /\ UNCHANGED <<calls, sub, relay, messages, messagesClosed, got>>
    /\ UNCHANGED <<connVars, pipeVars, closeVars, cfgVars, appVars>>

\* One of the three set-up calls on r.ch: on an error Listen returns it.
SetUp(name, next, ok) ==
    /\ listen.pc = name
    /\ Accepts(ch, ok)
    /\ calls' = Append(calls, [name |-> name, on |-> ch, ok |-> ok])
    /\ listen' = IF ok THEN [listen EXCEPT !.pc = next]
                 ELSE [listen EXCEPT !.pc = "returned", !.ret = "error"]
    /\ UNCHANGED <<sub, relay, messages, messagesClosed, got>>
    /\ UNCHANGED <<connVars, pipeVars, closeVars, cfgVars, appVars>>

ListenExchangeDeclare(ok) == SetUp("ExchangeDeclare", "QueueDeclare", ok)
ListenQueueDeclare(ok) == SetUp("QueueDeclare", "QueueBind", ok)
ListenQueueBind(ok) == SetUp("QueueBind", "Consume", ok)

\* r.ch.Consume; on success the buffered channel is made, the relay
\* goroutine started and the channel returned.
ListenConsume(ok) ==
    /\ listen.pc = "Consume"
    /\ Accepts(ch, ok)
    /\ calls' = Append(calls, [name |-> "Consume", on |-> ch, ok |-> ok])
    /\ IF ok
       THEN /\ listen' = [listen EXCEPT !.pc = "returned", !.ret = "messages"]
            /\ sub' = [NoSub EXCEPT !.on = ch]
            /\ relay' = [pc |-> "range", m |-> 0]
       ELSE /\ listen' = [listen EXCEPT !.pc = "returned", !.ret = "error"]
            /\ UNCHANGED <<sub, relay>>
    /\ UNCHANGED <<messages, messagesClosed, got>>
    /\ UNCHANGED <<connVars, pipeVars, closeVars, cfgVars, appVars>>

\* The delivery stream is closed once the consumer is cancelled or its
\* channel (with its connection) is closed.
StreamClosed == sub.on # NoGen /\ (sub.cancelled \/ chState[sub.on] # "open")

\* The broker delivers the next message of the queue: at most n messages
\* in all, and none while k deliveries wait for the relay.
DeliverUpTo(n, k) ==
    /\ sub.on # NoGen
    /\ ~StreamClosed
    /\ sub.delivered < n
    /\ Len(sub.pending) < k
    /\ sub' = [sub EXCEPT !.delivered = @ + 1, !.pending = Append(@, sub.delivered + 1)]
    /\ UNCHANGED <<listen, calls, relay, messages, messagesClosed, got>>
    /\ UNCHANGED <<connVars, pipeVars, closeVars, cfgVars, appVars>>

Deliver == DeliverUpTo(MaxDeliveries, MaxDeliveries)

\* A queue long enough to fill the buffered channel and leave the relay
\* with a delivery in hand and another one waiting.
MaxStream == Capacity + 2

Stream == DeliverUpTo(MaxStream, MaxBacklog)

\* The broker cancels the consumer.
Cancel ==
    /\ sub.on # NoGen
    /\ ~sub.cancelled
    /\ sub' = [sub EXCEPT !.cancelled = TRUE]
    /\ UNCHANGED <<listen, calls, relay, messages, messagesClosed, got>>
    /\ UNCHANGED <<connVars, pipeVars, closeVars, cfgVars, appVars>>

RelayRangeKeeps ==
    /\ relay.pc = "range"
    /\ sub.pending # <<>>
    /\ relay' = [pc |-> "send", m |-> Head(sub.pending)]
    /\ UNCHANGED <<listen, calls, sub, messages, messagesClosed, got>>
    /\ UNCHANGED <<connVars, pipeVars, closeVars, cfgVars, appVars>>

\* for m := range msgs: the next delivery.
RelayRange ==
    /\ relay.pc = "range"
    /\ sub.pending # <<>>
    /\ relay' = [pc |-> "send", m |-> Head(sub.pending)]
    /\ sub' = [sub EXCEPT !.pending = Tail(@)]
    /\ UNCHANGED <<listen, calls, messages, messagesClosed, got>>
    /\ UNCHANGED <<connVars, pipeVars, closeVars, cfgVars, appVars>>

\* messages <- newConsumerMessage(m): blocks while the buffer is full.
RelaySend ==
    /\ relay.pc = "send"
    /\ Len(messages) < Capacity
    /\ messages' = Append(messages, [delivery |-> relay.m])
    /\ relay' = [pc |-> "range", m |-> 0]
    /\ UNCHANGED <<listen, calls, sub, messagesClosed, got>>
    /\ UNCHANGED <<connVars, pipeVars, closeVars, cfgVars, appVars>>

\* The range loop ends when the stream is closed and drained; the
\* goroutine returns.
RelayExit ==
    /\ relay.pc = "range"
    /\ sub.pending = <<>>
    /\ StreamClosed
    /\ relay' = [pc |-> "done", m |-> 0]
    /\ UNCHANGED <<listen, calls, sub, messages, messagesClosed, got>>
    /\ UNCHANGED <<connVars, pipeVars, closeVars, cfgVars, appVars>>

\* The application receives from the channel Listen returned.
Receive ==
    /\ messages # <<>>
    /\ got' = Append(got, Head(messages))
    /\ messages' = Tail(messages)
    /\ UNCHANGED <<listen, calls, sub, relay, messagesClosed>>
    /\ UNCHANGED <<connVars, pipeVars, closeVars, cfgVars, appVars>>

\* --------------------------------------------------------- specification
Next ==
    \/ \E e \in Exchanges : Send(e)
    \/ \E ok \in BOOLEAN : ExchangeDeclare(ok)
    \/ BeforeRequest
    \/ \E ok \in BOOLEAN : Publish(ok)
    \/ AfterRequest
    \/ RecvOk
    \/ RecvErr
    \/ Tick
    \/ \E g \in Gens : ConnDrop(g)
    \/ \E i \in Gens : Register(i)
    \/ \E i \in Gens : Notified(i)
    \/ \E i \in Gens : Dial(i)
    \/ \E i \in Gens, ok \in BOOLEAN : Channel(i, ok)
    \/ \E i \in Gens : Lock(i)
    \/ \E i \in Gens : SetConn(i)
    \/ \E i \in Gens : SetCh(i)
    \/ \E i \in Gens : Spawn(i)
    \/ \E i \in Gens : Return(i)
    \/ CloseCh
    \/ CloseConn

Spec == Init /\ [][Next]_vars

\* The producer pipeline alone, on the channel NewRabbus opened, under
\* every configuration and every answer of the broker.
InitProduce == \E c \in Configs : NewRabbus(c, MaxMsgs)

NextProduce ==
    \/ \E e \in Exchanges : Send(e)
    \/ \E ok \in BOOLEAN : ExchangeDeclare(ok)
    \/ BeforeRequest
    \/ \E ok \in BOOLEAN : Publish(ok)
    \/ AfterRequest
    \/ RecvOk
    \/ RecvErr
    \/ Tick

SpecProduce == InitProduce /\ [][NextProduce]_vars


\* The consumer side: Listen and its relay, with the connection watch and
\* Close, and no message sent for publishing.
InitListen == NewRabbus([Threshold |-> 1, Attempts |-> 1, Interval |-> FALSE], 0)

NextListen ==
    \/ \E c \in ListenConfigs : ListenCall(c)
    \/ \E ok \in BOOLEAN : ListenExchangeDeclare(ok)
    \/ \E ok \in BOOLEAN : ListenQueueDeclare(ok)
    \/ \E ok \in BOOLEAN : ListenQueueBind(ok)
    \/ \E ok \in BOOLEAN : ListenConsume(ok)
    \/ Deliver
    \/ Cancel
    \/ RelayRange
    \/ RelaySend
    \/ RelayExit
    \/ Receive
    \/ \E g \in Gens : ConnDrop(g)
    \/ \E i \in Gens : Register(i)
    \/ \E i \in Gens : Notified(i)
    \/ \E i \in Gens : Dial(i)
    \/ \E i \in Gens, ok \in BOOLEAN : Channel(i, ok)
    \/ \E i \in Gens : Lock(i)
    \/ \E i \in Gens : SetConn(i)
    \/ \E i \in Gens : SetCh(i)
    \/ \E i \in Gens : Spawn(i)
    \/ \E i \in Gens : Return(i)
    \/ CloseCh
    \/ CloseConn

SpecListen == InitListen /\ [][NextListen]_vars

\* The connection watch alone, with the broker dropping connections and
\* the application calling Close, and no message sent.  Every goroutine of
\* notifyClose that can take a step is scheduled eventually; the broker is
\* free to refuse a dial for ever.
InitWatch == NewRabbus([Threshold |-> 1, Attempts |-> 1, Interval |-> FALSE], 0)

WatchStep(i) ==
    \/ Register(i)
    \/ Notified(i)
    \/ \E ok \in BOOLEAN : Channel(i, ok)
    \/ Lock(i)
    \/ SetConn(i)
    \/ SetCh(i)
    \/ Spawn(i)
    \/ Return(i)

NextWatch ==
    \/ \E g \in Gens : ConnDrop(g)
    \/ \E i \in Gens : Dial(i)
    \/ \E i \in Gens : WatchStep(i)
    \/ CloseCh
    \/ CloseConn

FairWatch == \A i \in Gens : WF_vars(WatchStep(i))

SpecWatch == InitWatch /\ [][NextWatch]_vars /\ FairWatch

\* One subscription on a connection that stays up, fed from a long queue
\* by a broker that keeps at most MaxBacklog deliveries ahead of the relay,
\* with an application that receives whenever it likes.
NextRelay ==
    \/ \E c \in ListenConfigs : ListenCall(c)
    \/ \E ok \in BOOLEAN : ListenExchangeDeclare(ok)
    \/ \E ok \in BOOLEAN : ListenQueueDeclare(ok)
    \/ \E ok \in BOOLEAN : ListenQueueBind(ok)
    \/ \E ok \in BOOLEAN : ListenConsume(ok)
    \/ Stream
    \/ RelayRange
    \/ RelaySend
    \/ Receive

SpecRelay == InitListen /\ [][NextRelay]_vars

\* Spec with a pipeline goroutine that is scheduled whenever it can take a
\* step and readers that receive from r.emitOk and r.emitErr whenever
\* produce is sending; the application may stop sending at any time.
PipeStep ==
    \/ \E ok \in BOOLEAN : ExchangeDeclare(ok)
    \/ BeforeRequest
    \/ \E ok \in BOOLEAN : Publish(ok)
    \/ AfterRequest
    \/ RecvOk
    \/ RecvErr

SpecLive == Init /\ [][Next]_vars /\ WF_vars(PipeStep)

\* The producer pipeline used by an application of one goroutine, on the
\* channel NewRabbus opened, under every configuration.
InitCaller == \E c \in Configs : NewRabbus(c, MaxLoad)

\* The steps of the two goroutines: the caller and the pipeline.
ProcessStep ==
    \/ \E op \in {"send", "read"} : CallerChoose(op)
    \/ \E e \in Exchanges : CallerSend(e)
    \/ CallerRecvOk
    \/ CallerRecvErr
    \/ \E ok \in BOOLEAN : ExchangeDeclare(ok)
    \/ BeforeRequest
    \/ \E ok \in BOOLEAN : Publish(ok)
    \/ AfterRequest

NextCaller ==
    \/ ProcessStep
    \/ Tick

SpecCaller == InitCaller /\ [][NextCaller]_vars

\* ============================================================ properties
Kinds(seq) == {seq[i].kind : i \in 1..Len(seq)}
InFlight == pc # "recv"
Min(a, b) == IF a < b THEN a ELSE b
Max(a, b) == IF a > b THEN a ELSE b

\* C1: every message accepted from r.emit gets exactly one outcome, on
\* r.emitOk or on r.emitErr: the outcomes received so far are those of
\* messages 1, 2, ... in turn, one each, and only the message produce is
\* working on has none yet; this on the declare-failure path, the
\* breaker/retry-failure path and the publish-success path alike.
C1_ExactlyOneOutcome ==
    /\ Len(outcomes) = IF InFlight THEN sent - 1 ELSE sent
    /\ \A i \in 1..Len(outcomes) :
          /\ outcomes[i].id = i
          /\ outcomes[i].kind \in {"ok", "declare", "open", "publish"}
    /\ InFlight => m.id = sent

C1_Witness ==
    /\ pc = "recv"
    /\ sent = MaxMsgs
    /\ Len(outcomes) = MaxMsgs
    /\ {"ok", "declare", "publish"} \subseteq Kinds(outcomes)

\* C6: as long as the broker has accepted every declare and every publish,
\* the breaker stays closed and the outcomes are success signals only, the
\* i-th one for the i-th message sent, with at most one message in work.
C6_OrderedSuccess ==
    ~refused =>
        /\ breaker.state = "closed"
        /\ breaker.ConsecutiveFailures = 0
        /\ err = "none"
        /\ pc # "emitErr"
        /\ \A i \in 1..Len(outcomes) : outcomes[i] = [id |-> i, kind |-> "ok"]
        /\ sent - Len(outcomes) \in {0, 1}

C6_Witness ==
    /\ ~refused
    /\ pc = "recv"
    /\ Len(outcomes) = MaxMsgs
    /\ Kinds(outcomes) = {"ok"}


\* The scenario of C2: threshold 2, no clearing interval, and the first n
\* messages all ended with the error of an exhausted retry.
Scenario(n) ==
    /\ input.Threshold = 2
    /\ ~input.Interval
    /\ Len(outcomes) >= n
    /\ \A i \in 1..n : outcomes[i].kind = "publish"

C7_State ==
    /\ config.Threshold = IF input.Threshold = 0 THEN 5 ELSE input.Threshold
    /\ breaker.state = "closed" => breaker.ConsecutiveFailures <= config.Threshold
    /\ pc \in {"publish", "after"} => breaker.state # "open"
    /\ (pc = "emitErr" /\ err = "open") => (results = <<>> /\ breaker.state = "open")

C7_Step ==
    /\ C7_State'
    /\ (breaker.state = "open" /\ ~breaker.expired) => breaker'.state = "open"
    /\ (/\ pc = "after" /\ pc' = "emitErr"
        /\ breaker.state = "closed" /\ ~breaker.expired
        /\ breaker.generation = before
        /\ breaker.ConsecutiveFailures = config.Threshold)
          => breaker'.state = "open"
    /\ (pc = "execute" /\ pc' # pc /\ breaker.state = "open" /\ ~breaker.expired)
          => (pc' = "emitErr" /\ err' = "open" /\ results' = <<>>)

FirstSuccess(seq, a) ==
    IF \E i \in 1..Len(seq) : seq[i]
    THEN CHOOSE i \in 1..Len(seq) : seq[i] /\ \A j \in 1..(i - 1) : ~seq[j]
    ELSE a

\* C8 as stated: when the retry has returned, the number of Publish calls
\* made for the message is min(k, attempts), and the result is success
\* iff one of those calls succeeded.
C8_Original ==
    pc = "after" =>
        LET n == Min(FirstSuccess(results, config.Attempts), config.Attempts)
        IN  /\ Len(results) = n
            /\ (err = "none") <=> (\E i \in 1..n : results[i])

\* C8 as amended: the number of Publish calls is min(k, attempts) for
\* attempts >= 1, and one call when attempts is 0; every call but the last
\* failed, and the result is success iff the last call succeeded, else the
\* publish error.
C8_RetryCount ==
    LET a == Max(config.Attempts, 1)
    IN  /\ pc = "publish" =>
              /\ Len(results) < a
              /\ \A i \in 1..Len(results) : ~results[i]
        /\ pc = "after" =>
              /\ Len(results) = Min(FirstSuccess(results, a), a)
              /\ Len(results) >= 1
              /\ \A i \in 1..(Len(results) - 1) : ~results[i]
              /\ (err = "none") <=> results[Len(results)]
              /\ err \in {"none", "publish"}

C8_Witness ==
    /\ pc = "after"
    /\ config.Attempts = 2
    /\ results = <<FALSE, TRUE>>
    /\ err = "none"

\* C10: r.exDeclared changes only by produce adding the name of the
\* message it is working on after ExchangeDeclare returned nil for it.
\* When ExchangeDeclare returns an error the cache is unchanged and the
\* error is what r.emitErr carries for that message; a later message
\* naming an exchange that is not cached calls ExchangeDeclare again.
C10_Step ==
    /\ exDeclared' # exDeclared =>
          /\ pc = "declare" /\ pc' = "execute"
          /\ declare'.ok /\ declare'.Exchange = m.Exchange
          /\ exDeclared' = exDeclared \cup {m.Exchange}
    /\ (pc = "declare" /\ pc' # pc /\ ~declare'.ok) =>
          /\ exDeclared' = exDeclared
          /\ pc' = "emitErr" /\ err' = "declare"
    /\ (pc = "emitErr" /\ pc' # pc /\ err = "declare") =>
          outcomes' = Append(outcomes, [id |-> m.id, kind |-> "declare"])
    /\ (pc = "recv" /\ pc' # pc /\ m'.Exchange \notin exDeclared) => pc' = "declare"

C10_CacheAfterSuccess == [][C10_Step]_vars

C10_Witness ==
    /\ pc = "declare"
    /\ m.Exchange \notin exDeclared
    /\ m.Exchange \in tried
    /\ Len(outcomes) >= 1
    /\ outcomes[Len(outcomes)].kind = "declare"


\* C3: every name in r.exDeclared was declared on the channel r.ch names:
\* a swap of the channel leaves no name of an earlier channel in the cache.
C3_CacheOfActiveChannel == exDeclared \subseteq fresh

\* C5: Close acts on the connection and the channel of one generation.
C5_CloseSeesOnePair == closePc = "done" => closed.ch = closed.conn

\* C9 as stated: on one channel, ExchangeDeclare is called at most once
\* for a name.
C9_OriginalStep == (pc = "declare" /\ pc' # pc) => m.Exchange \notin tried

C9_Original == [][C9_OriginalStep]_vars

\* C9 as amended: on one channel, ExchangeDeclare is not called again for
\* a name it has succeeded for (a failed declare is repeated by the next
\* message naming the exchange); a message naming a cached exchange goes
\* to the publish without a declare.
C9_Step ==
    /\ (pc = "declare" /\ pc' # pc) => m.Exchange \notin fresh
    /\ (pc = "recv" /\ pc' # pc /\ m'.Exchange \in exDeclared) =>
          (pc' = "execute" /\ declare' = NoCall)

C9_DeclaredOncePerChannel == [][C9_Step]_vars

C9_Witness ==
    /\ pc = "execute"
    /\ m.Exchange \in exDeclared
    /\ m.Exchange \in fresh
    /\ declare = NoCall
    /\ ch > 0


\* C4: once the relay's loop has ended because the delivery stream was
\* closed, the channel Listen returned is closed.
C4_OutputClosedWithStream == relay.pc = "done" => messagesClosed

\* The watches that have been started so far.
Started == {j \in Gens : watch[j].pc # "none"}

\* C11: a watch that was notified of an error stays in its loop of Dial
\* and Channel until both succeed in one iteration, and r.conn and r.ch
\* keep their values meanwhile; once both have succeeded the watch
\* eventually holds the lock, makes the new connection and channel the
\* active pair, starts exactly one new watch, which registers on the new
\* connection, and returns.
C11_Step ==
    \A i \in Gens :
        /\ watch[i].pc \in {"dial", "channel"} =>
              /\ watch'[i].pc \in {"dial", "channel", "lock"}
              /\ conn' = conn
              /\ ch' = ch
        /\ (watch[i].pc = "spawn" /\ watch'[i].pc # "spawn") =>
              /\ watch'[i].pc = "return"
              /\ Started' = Started \cup {i + 1}
              /\ i + 1 \notin Started
              /\ watch'[i + 1].pc = "start"
        /\ (i \notin Started /\ i \in Started') =>
              /\ i > 0
              /\ watch[i - 1].pc = "spawn"
        /\ (watch[i].pc = "start" /\ watch'[i].pc = "waiting"
              /\ i > 0 /\ watch[i - 1].pc = "return") =>
              watch'[i].on = watch[i - 1].nconn

C11_Swapped ==
    \A i \in Gens :
        watch[i].pc \in {"spawn", "return"} =>
            /\ conn = watch[i].nconn
            /\ ch = watch[i].nconn

C11_Live ==
    \A i \in 0..(MaxGen - 1) : (watch[i].pc = "lock") ~> (watch[i].pc = "done")

C11_Reconnects == [][C11_Step]_vars /\ []C11_Swapped /\ C11_Live

C11_Witness ==
    /\ connState[0] = "closedErr"
    /\ connState[1] = "dropped"
    /\ conn = 2
    /\ ch = 2
    /\ watch[0] = DoneWatch
    /\ watch[1].pc = "waiting"
    /\ watch[1].on = 2

\* C12: a watch that receives nil, because the connection it waits on was
\* closed gracefully, ends at once: no connection is dialled, r.conn and
\* r.ch keep their values, no watch is started, and the watch never takes
\* another step.
C12_Step ==
    \A i \in Gens :
        /\ (watch[i].pc = "waiting" /\ connState[watch[i].on] = "closedOk"
              /\ watch'[i] # watch[i]) =>
              /\ watch'[i] = DoneWatch
              /\ conn' = conn
              /\ ch' = ch
              /\ connState' = connState
              /\ Started' = Started
        /\ watch[i].pc = "done" => watch'[i].pc = "done"

C12_GracefulCloseEndsWatch == [][C12_Step]_vars

C12_Witness ==
    /\ closePc = "done"
    /\ closed.conn = 1
    /\ conn = 1
    /\ connState[1] = "closedOk"
    /\ watch[0] = DoneWatch
    /\ watch[1] = DoneWatch
    /\ Started = {0, 1}

\* C13: a call of Listen whose configuration lacks the exchange, the kind
\* or the queue has returned the error of the first missing field, in the
\* order exchange, kind, queue, and not the channel; it made no broker
\* call, started no consumer and no relay.
C13_InvalidListen ==
    (listen.pc # "idle"
        /\ (listen.c.Exchange = "" \/ listen.c.Kind = "" \/ listen.c.Queue = "")) =>
        /\ listen.pc = "returned"
        /\ listen.ret = (IF listen.c.Exchange = "" THEN "ErrMissingExchange"
                         ELSE IF listen.c.Kind = "" THEN "ErrMissingKind"
                         ELSE "ErrMissingQueue")
        /\ calls = <<>>
        /\ sub = NoSub
        /\ relay.pc = "none"
        /\ messages = <<>>

C13_Witness ==
    /\ listen.pc = "returned"
    /\ listen.c = [Exchange |-> "", Kind |-> "", Queue |-> "q"]
    /\ listen.ret = "ErrMissingExchange"
    /\ calls = <<>>

\* What the relay has put on the channel Listen returned, read or unread.
Forwarded ==
    [i \in 1..(Len(got) + Len(messages)) |->
        IF i <= Len(got) THEN got[i].delivery ELSE messages[i - Len(got)].delivery]

InHand == IF relay.pc = "send" THEN 1 ELSE 0

\* C14: what the relay has put on the output channel is the first
\* deliveries of the broker, in the broker's order, each once; the next
\* one is in the relay's hand or first in the stream; at most 256 are
\* buffered unread, and with 256 buffered the relay cannot send.
C14_RelayPrefix ==
    sub.on # NoGen =>
        /\ Forwarded = [i \in 1..Len(Forwarded) |-> i]
        /\ relay.pc = "send" => relay.m = Len(Forwarded) + 1
        /\ sub.pending = [i \in 1..Len(sub.pending) |-> Len(Forwarded) + InHand + i]
        /\ Len(Forwarded) + InHand + Len(sub.pending) = sub.delivered
        /\ Len(messages) <= Capacity
        /\ (relay.pc = "send" /\ Len(messages) = Capacity) => ~ENABLED RelaySend

C14_Witness ==
    /\ Len(messages) = Capacity
    /\ relay.pc = "send"
    /\ relay.m = Capacity + 1
    /\ sub.pending = <<Capacity + 2>>
    /\ got = <<>>

\* C15: with the pipeline scheduled and the readers receiving, every
\* message accepted from r.emit yields its outcome: one message takes at
\* most one ExchangeDeclare call and at most max(1, Attempts) Publish
\* calls, whatever the connection watch and Close are doing meanwhile.
C15_Bounded ==
    /\ Len(results) <= Max(1, config.Attempts)
    /\ pc = "declare" => (declare = NoCall /\ results = <<>>)
    /\ Len(outcomes) <= sent

C15_Live ==
    \A k \in 1..MaxLoad : (sent >= k) ~> (Len(outcomes) >= k)

C15_EveryMessageAnswered == []C15_Bounded /\ C15_Live

C15_Witness ==
    /\ Len(outcomes) = MaxLoad
    /\ outcomes[MaxLoad].kind = "publish"
    /\ \E i \in Gens : watch[i].pc \in {"dial", "channel", "lock"}
    /\ pc = "recv"

\* What the breaker counts: its state, its generation and its counter.
Counted(b) == <<b.state, b.generation, b.ConsecutiveFailures>>

\* C16: accepting a message and declaring its exchange do not involve the
\* breaker: a message whose exchange is not cached gets its ExchangeDeclare
\* call whatever the breaker's state, and when the call fails the message
\* ends with the declare error on r.emitErr, without a Publish call and
\* with the breaker's state and counter as they were; the pipeline then
\* waits for the next message.
C16_Step ==
    /\ (pc \in {"recv", "declare"} \/ err = "declare") =>
          Counted(breaker') = Counted(breaker)
    /\ err = "declare" => (pc = "emitErr" /\ results = <<>>)
    /\ (err = "declare" /\ pc' # pc) =>
          /\ pc' = "recv"
          /\ outcomes' = Append(outcomes, [id |-> m.id, kind |-> "declare"])
    /\ (pc = "recv" /\ pc' # pc /\ m'.Exchange \notin exDeclared) => pc' = "declare"
    /\ (pc = "declare" /\ pc' # pc) => declare'.Exchange = m.Exchange

C16_BreakerGatesPublishOnly == [][C16_Step]_vars

C16_Witness ==
    /\ breaker.state = "open"
    /\ ~breaker.expired
    /\ pc = "emitErr"
    /\ err = "declare"
    /\ declare.Exchange = m.Exchange
    /\ results = <<>>

\* C17 as stated: the afterRequest of a message whose attempts all failed
\* leaves the counter one higher, and the afterRequest of a message that
\* succeeded leaves it at zero.
C17_OriginalStep ==
    (pc = "after" /\ pc' # pc) =>
        IF err = "none"
        THEN breaker'.ConsecutiveFailures = 0
        ELSE breaker'.ConsecutiveFailures = breaker.ConsecutiveFailures + 1

C17_Original == [][C17_OriginalStep]_vars

\* The clearing interval has elapsed since the breaker was consulted for
\* the message: its result belongs to a past generation.
Stale == breaker.state = "closed" /\ config.Interval /\ breaker.expired

\* C17 as amended: the publish attempts of a message do not touch the
\* breaker, which counts the message once, when the retry has returned.
\* A failed message then raises the counter by exactly one if the breaker
\* is closed, the clearing interval has not elapsed meanwhile and the new
\* count does not exceed the threshold; if the new count exceeds the
\* threshold the breaker opens, and then, as for a failure in the
\* half-open state or after the interval has elapsed, the counter is
\* zero.  A message that succeeded on any attempt leaves the counter at
\* zero.
C17_Step ==
    /\ pc \notin {"execute", "after"} => Counted(breaker') = Counted(breaker)
    /\ (pc = "after" /\ pc' # pc) =>
          IF err = "none"
          THEN breaker'.ConsecutiveFailures = 0
          ELSE IF breaker.state = "closed" /\ ~Stale
                  /\ breaker.ConsecutiveFailures + 1 <= config.Threshold
          THEN /\ breaker'.ConsecutiveFailures = breaker.ConsecutiveFailures + 1
               /\ breaker'.state = "closed"
          ELSE /\ breaker'.ConsecutiveFailures = 0
               /\ (breaker.state = "closed" /\ ~Stale) => breaker'.state = "open"

C17_CountedOncePerMessage == [][C17_Step]_vars

C17_Witness ==
    /\ pc = "emitErr"
    /\ err = "publish"
    /\ results = <<FALSE, FALSE>>
    /\ m.id = 2
    /\ outcomes = <<[id |-> 1, kind |-> "publish"]>>
    /\ breaker.state = "closed"
    /\ breaker.ConsecutiveFailures = 2

\* The caller is in its send while produce is in its send of an outcome.
Blocked == caller = "send" /\ pc \in {"emitOk", "emitErr"}

\* C18: at most one message is in work, and r.emit takes no message while
\* the outcome of the last one has not been received; a caller of one
\* goroutine that sends the next message before it has received that
\* outcome is blocked together with the pipeline: neither goroutine has a
\* step.
C18_OneInFlight ==
    /\ sent - Len(outcomes) \in {0, 1}
    /\ sent > Len(outcomes) => ~ENABLED (\E e \in Exchanges : Accept(e))
    /\ Blocked => ~ENABLED ProcessStep

C18_Witness ==
    /\ Blocked
    /\ sent = 1
    /\ outcomes = <<>>
    /\ load > sent
    /\ ~ENABLED NextCaller

\* C19: once Close has returned, r.conn does not name an open connection
\* and r.ch does not name an open channel.
C19_ClosedForGood ==
    closePc = "done" => (connState[conn] # "open" /\ chState[ch] # "open")

\* C20: after a reconnection, when the connection r.conn names has been
\* closed with an error and Close was not called, a watch is there to
\* reconnect: one that is about to register, waits, or is in its loop.
C20_WatchAfterReconnect ==
    (conn > 0 /\ ch = conn /\ connState[conn] = "closedErr" /\ closePc = "idle") =>
        \E i \in Gens : watch[i].pc \notin {"none", "done", "return"}

====
